---- MODULE Spec2Model ----
(***************************************************************************)
(* The punch-card log: a page script that keeps an ordered list of         *)
(* {text, date} entries under the localStorage key 'punchData' and shows   *)
(* it newest first.  Two variants of the script exist: the richer one      *)
(* (src/unnamed/part_000: per-row delete, clear-all) and the simpler one   *)
(* (script.js).  Strings are sequences of one-character strings (a         *)
(* character outside ASCII is written by its code point, "U+3010"), so    *)
(* that trimming, JSON serialisation and the text templates are computed   *)
(* character by character.                                                 *)
(***************************************************************************)
EXTENDS Integers, Sequences, FiniteSets, TLC

\* ------------------------------------------------------------------ bounds

\* Largest number of entries the log is allowed to grow to in the model.
MaxLog == 3

\* ------------------------------------------------------------ environment

\* Values the user may have typed into the text input before a submit: empty,
\* blank, padded with blanks on both sides, and one made of the characters
\* JSON must escape (quote, tab, backslash).  A text input holds no line break.
Inputs == { <<>>, <<" ", "\t">>, <<" ", "a", "\t">>, <<"\"", "\t", "\\">> }

\* Strings the clock formatting may yield at submit time (opaque to the script).
Dates == { <<"1", ":", "0", "5">>, <<"2", ":", "3", "0">> }

\* The two scripts.
Variants == { "rich", "simple" }

\* --------------------------------------------------------- string helpers

RECURSIVE Concat(_)
\* The concatenation of a sequence of strings.
Concat(ss) == IF ss = <<>> THEN <<>> ELSE Head(ss) \o Concat(Tail(ss))

\* The sequence in reverse order (Array.prototype.reverse).
Reverse(s) == [i \in 1..Len(s) |-> s[Len(s) + 1 - i]]

\* Characters String.prototype.trim strips (those of them the inputs use).
WhiteSpace == { " ", "\t" }

RECURSIVE TrimStart(_)
TrimStart(s) == IF s # <<>> /\ Head(s) \in WhiteSpace THEN TrimStart(Tail(s)) ELSE s

RECURSIVE TrimEnd(_)
TrimEnd(s) == IF s # <<>> /\ s[Len(s)] \in WhiteSpace THEN TrimEnd(SubSeq(s, 1, Len(s) - 1)) ELSE s

\* A trim that strips nothing.
TrimNothing(s) == s

\* String.prototype.trim.
Trim(s) == TrimEnd(TrimStart(s))

\* The decimal digits.
DigitChars == <<"0", "1", "2", "3", "4", "5", "6", "7", "8", "9">>

RECURSIVE NumberToString(_)
\* The decimal numeral of a natural number (a number interpolated in a template).
NumberToString(n) == IF n < 10 THEN <<DigitChars[n + 1]>> ELSE NumberToString(n \div 10) \o <<DigitChars[(n % 10) + 1]>>

\* -------------------------------------------------------------------- JSON

\* A serialiser that escapes nothing.
JSONescapeNothing(c) == <<c>>

\* JSON.stringify of one character inside a string literal.
JSONescape(c) == IF c = "\"" THEN <<"\\", "\"">> ELSE IF c = "\\" THEN <<"\\", "\\">> ELSE IF c = "\t" THEN <<"\\", "t">> ELSE <<c>>

\* JSON.stringify of a string.
JSONquote(s) == <<"\"">> \o Concat([i \in 1..Len(s) |-> JSONescape(s[i])]) \o <<"\"">>

KeyText == <<"t", "e", "x", "t">>
KeyDate == <<"d", "a", "t", "e">>

\* JSON.stringify of one entry: the members in creation order, text then date.
JSONstringifyEntry(e) == <<"{">> \o JSONquote(KeyText) \o <<":">> \o JSONquote(e.text) \o <<",">> \o JSONquote(KeyDate) \o <<":">> \o JSONquote(e.date) \o <<"}">>

RECURSIVE JSONjoin(_)
JSONjoin(items) == IF items = <<>> THEN <<>> ELSE IF Len(items) = 1 THEN Head(items) ELSE Head(items) \o <<",">> \o JSONjoin(Tail(items))

\* JSON.stringify of the entry array.
JSONstringify(data) == <<"[">> \o JSONjoin([i \in 1..Len(data) |-> JSONstringifyEntry(data[i])]) \o <<"]">>

\* The result of JSON.parse when it throws SyntaxError.
ParseFail == [ok |-> FALSE, val |-> <<>>]

\* The structural characters of the stored documents.
Punctuators == { "[", "]", "{", "}", ":", "," }

RECURSIVE StringLiteral(_, _, _)
\* The characters of a string literal from position i (after the opening
\* quote) up to the closing quote, escapes decoded; next is the position
\* after the closing quote.  A raw control character or an unknown escape
\* is an error.
StringLiteral(s, i, acc) ==
  IF i > Len(s) THEN [ok |-> FALSE, val |-> acc, next |-> i]
  ELSE IF s[i] = "\"" THEN [ok |-> TRUE, val |-> acc, next |-> i + 1]
  ELSE IF s[i] = "\t" THEN [ok |-> FALSE, val |-> acc, next |-> i]
  ELSE IF s[i] # "\\" THEN StringLiteral(s, i + 1, Append(acc, s[i]))
  ELSE IF i + 1 > Len(s) THEN [ok |-> FALSE, val |-> acc, next |-> i]
  ELSE IF s[i + 1] \in { "\"", "\\", "/" } THEN StringLiteral(s, i + 2, Append(acc, s[i + 1]))
  ELSE IF s[i + 1] = "t" THEN StringLiteral(s, i + 2, Append(acc, "\t"))
  ELSE [ok |-> FALSE, val |-> acc, next |-> i]

\* A token that no document holds: the text from here on is not JSON.
BadToken == [kind |-> "bad", val |-> <<>>]

RECURSIVE Tokens(_, _, _)
\* The tokens of s from position i on: punctuators and decoded strings.
Tokens(s, i, acc) ==
  IF i > Len(s) THEN acc
  ELSE IF s[i] \in Punctuators THEN Tokens(s, i + 1, Append(acc, [kind |-> "punct", val |-> <<s[i]>>]))
  ELSE IF s[i] # "\"" THEN Append(acc, BadToken)
  ELSE LET lit == StringLiteral(s, i + 1, <<>>)
       IN IF lit.ok THEN Tokens(s, lit.next, Append(acc, [kind |-> "string", val |-> lit.val])) ELSE Append(acc, BadToken)

\* Whether token i of toks is the punctuator c.
IsPunct(toks, i, c) == i <= Len(toks) /\ toks[i] = [kind |-> "punct", val |-> <<c>>]

\* Whether token i of toks is a string.
IsString(toks, i) == i <= Len(toks) /\ toks[i].kind = "string"

\* Whether the nine tokens from i on are an object  {"text":s,"date":s}.
IsEntryAt(toks, i) ==
  /\ IsPunct(toks, i, "{")
  /\ IsString(toks, i + 1) /\ toks[i + 1].val = KeyText
  /\ IsPunct(toks, i + 2, ":")
  /\ IsString(toks, i + 3)
  /\ IsPunct(toks, i + 4, ",")
  /\ IsString(toks, i + 5) /\ toks[i + 5].val = KeyDate
  /\ IsPunct(toks, i + 6, ":")
  /\ IsString(toks, i + 7)
  /\ IsPunct(toks, i + 8, "}")

RECURSIVE Elements(_, _, _)
\* The elements of an array from token i (the first one, or one after a
\* comma) up to the closing bracket, which must be the last token.
Elements(toks, i, acc) ==
  IF ~IsEntryAt(toks, i) THEN ParseFail
  ELSE IF IsPunct(toks, i + 9, ",") THEN Elements(toks, i + 10, Append(acc, [text |-> toks[i + 3].val, date |-> toks[i + 7].val]))
  ELSE IF IsPunct(toks, i + 9, "]") /\ Len(toks) = i + 9 THEN [ok |-> TRUE, val |-> Append(acc, [text |-> toks[i + 3].val, date |-> toks[i + 7].val])]
  ELSE ParseFail

\* The array a token sequence denotes.
ParseArray(toks) ==
  IF ~IsPunct(toks, 1, "[") THEN ParseFail
  ELSE IF IsPunct(toks, 2, "]") THEN [ok |-> Len(toks) = 2, val |-> <<>>]
  ELSE Elements(toks, 2, <<>>)

\* JSON.parse on the documents this script stores (an array of objects with
\* the string members text and date, no insignificant white space); any other
\* text is reported as a failure.
JSONparse(s) == ParseArray(Tokens(s, 1, <<>>))

\* ------------------------------------------------------------------- state

VARIABLES variant, storage, input, rows, captured, last

vars == <<variant, storage, input, rows, captured, last>>

\* variant  : which of the two scripts the page runs
\* storage  : localStorage's item 'punchData': absent, or a string
\* input    : punchInput.value
\* rows     : the <li> children of punchList, in document order; each has the
\*            markup assigned to its innerHTML and the display index its
\*            delete control closes over (-1: the row has no delete control)
\* captured : the array `data` the live delete controls close over
\* last     : what the handler that ran last did (see Quiet)

\* localStorage without the item.
Absent == [present |-> FALSE, value |-> <<>>]

\* A handler's observable effects, before it has had any.
\* op: the handler; arg: the display index or the confirm answer; date: the
\* generated date string; threw: it ended in an exception; prevented:
\* e.preventDefault() was called; alerts, confirms: dialogs shown; renders:
\* calls of renderPunchList; created, revoked: object URLs; downloads: the
\* files offered by a click on a download link.
Quiet == [op |-> "none", arg |-> -1, date |-> <<>>, threw |-> FALSE, prevented |-> FALSE, alerts |-> 0, confirms |-> 0, renders |-> 0, created |-> 0, revoked |-> 0, downloads |-> <<>>]

\* ----------------------------------------------------------------- storage

\* getPunchData: the stored array, or the empty array when the item is absent
\* (null) or the empty string (both falsy); ok is FALSE when JSON.parse throws.
getPunchData(st) == IF ~st.present \/ st.value = <<>> THEN [ok |-> TRUE, val |-> <<>>] ELSE JSONparse(st.value)

\* savePunchData: the item after it is overwritten with the serialised array.
savePunchData(data) == [present |-> TRUE, value |-> JSONstringify(data)]

\* ------------------------------------------------------------------ render

\* The markup assigned to a row's innerHTML.
RowHtml(item) == <<"<","s","p","a","n",">">> \o item.text \o <<"<","/","s","p","a","n",">","<","s","p","a","n"," ","c","l","a","s","s","=","\"","d","a","t","e","\"",">">> \o item.date \o <<"<","/","s","p","a","n",">">>

\* The rows built from the items in display order, each with a delete
\* control that closes over its display index.
RowsWithDelete(shown) == [j \in 1..Len(shown) |-> [html |-> RowHtml(shown[j]), del |-> j - 1]]

\* The rows built from the items in display order, without a control.
RowsPlain(shown) == [j \in 1..Len(shown) |-> [html |-> RowHtml(shown[j]), del |-> -1]]

\* What a call of renderPunchList yields: whether it threw, the storage it
\* leaves, the new rows, and the array the new delete controls close over.
RenderResult(loaded, st, cap, rws) == [threw |-> ~loaded.ok, storage |-> st, captured |-> cap, rows |-> rws]

\* The body of the richer script's renderPunchList once the array is loaded:
\* the rows are those of a reversed copy of the array.
renderLoaded(loaded, st) == RenderResult(loaded, st, loaded.val, RowsWithDelete(Reverse(loaded.val)))

\* A render that shows the array in stored order.
renderPunchListUnreversed(st) == RenderResult(getPunchData(st), st, getPunchData(st).val, RowsWithDelete(getPunchData(st).val))

\* renderPunchList of the richer script on storage st.
renderPunchList(st) == renderLoaded(getPunchData(st), st)

\* The body of the simpler script's renderPunchList once the array is loaded:
\* it reverses the loaded array in place and builds rows without a control.
renderLoadedSimple(loaded, st) == RenderResult(loaded, st, <<>>, RowsPlain(Reverse(loaded.val)))

\* A render that writes the array it reversed in place back to storage.
renderPunchListSimpleSaving(st) == RenderResult(getPunchData(st), IF getPunchData(st).ok /\ st.present THEN savePunchData(Reverse(getPunchData(st).val)) ELSE st, <<>>, RowsPlain(Reverse(getPunchData(st).val)))

\* renderPunchList of the simpler script on storage st.
renderPunchListSimple(st) == renderLoadedSimple(getPunchData(st), st)

\* The page's renderPunchList.
Render(v, st) == IF v = "rich" THEN renderPunchList(st) ELSE renderPunchListSimple(st)

\* The page after a call of renderPunchList with result r, made by a handler
\* with effects eff so far while the live delete controls close over cap: an
\* exception (a stored value that does not parse) leaves the list as it was.
Rendered(r, eff, cap) ==
  /\ storage' = r.storage
  /\ rows' = IF r.threw THEN rows ELSE r.rows
  /\ captured' = IF r.threw THEN cap ELSE r.captured
  /\ last' = [eff EXCEPT !.renders = @ + 1, !.threw = r.threw]

\* The page after a handler calls renderPunchList on storage st.
AfterRender(st, eff, cap) == Rendered(Render(variant, st), eff, cap)

\* ---------------------------------------------------------------- handlers

\* The page is loaded: the script runs and renders the stored log.
PageLoad ==
  /\ input' = <<>>
  /\ AfterRender(storage, [Quiet EXCEPT !.op = "load"], <<>>)
  /\ UNCHANGED variant

\* The user edits the text input.
TypeInput ==
  \E v \in Inputs :
    /\ input' = v
    /\ last' = [Quiet EXCEPT !.op = "type"]
    /\ UNCHANGED <<variant, storage, rows, captured>>

\* An insertion at the front (unshift).
PushFront(data, item) == <<item>> \o data

\* Array.prototype.push of one item: the array afterwards.
Push(data, item) == Append(data, item)

\* The effects of a submit handler once it has called e.preventDefault().
SubmitEffects == [Quiet EXCEPT !.op = "submit", !.prevented = TRUE]

\* The submit handler from the trimmed input on; loaded is what getPunchData
\* returns and d the date string the clock yields.
SubmitText(text, loaded, d) ==
  IF text = <<>>
  THEN /\ last' = SubmitEffects
       /\ UNCHANGED <<variant, storage, input, rows, captured>>
  ELSE IF ~loaded.ok
  THEN /\ last' = [SubmitEffects EXCEPT !.threw = TRUE]
       /\ UNCHANGED <<variant, storage, input, rows, captured>>
  ELSE /\ Len(loaded.val) < MaxLog
       /\ input' = <<>>
       /\ AfterRender(savePunchData(Push(loaded.val, [text |-> text, date |-> d])), [SubmitEffects EXCEPT !.date = d], captured)
       /\ UNCHANGED variant

\* The submit handler of punchForm.
Submit == \E d \in Dates : SubmitText(Trim(input), getPunchData(storage), d)

\* Array.prototype.splice(start, count) without inserted items: the array left.
Splice(data, start, count) ==
  LET len == Len(data)
      from == IF start < 0 THEN (IF len + start < 0 THEN 0 ELSE len + start) ELSE (IF start > len THEN len ELSE start)
      cnt == IF count < 0 THEN 0 ELSE IF count > len - from THEN len - from ELSE count
  IN SubSeq(data, 1, from) \o SubSeq(data, from + cnt + 1, len)

\* An index taken as if the rows were in stored order.
OriginIdxUnmapped(len, idx) == idx

\* The index in the stored array of the row at display index idx.
OriginIdx(len, idx) == len - 1 - idx

\* The delete handler once the array is spliced: it saves the array the
\* controls close over and renders.
DeleteSpliced(data, idx) == AfterRender(savePunchData(data), [Quiet EXCEPT !.op = "delete", !.arg = idx], data)

\* The click handler of the delete control of the row at display position i
\* (richer script): it removes one element of the captured array, saves that
\* array and renders.
Delete ==
  \E i \in 1..Len(rows) :
    /\ rows[i].del >= 0
    /\ DeleteSpliced(Splice(captured, OriginIdx(Len(captured), rows[i].del), 1), rows[i].del)
    /\ UNCHANGED <<variant, input>>

\* The line of the report for the item at 0-based index idx.
ExportLine(item, idx) == <<"U+3010">> \o NumberToString(idx + 1) \o <<"U+3011">> \o item.date \o <<"U+FF1A">> \o item.text \o <<"\n">>

\* A report in display order.
ExportContentNewestFirst(data) == Concat([k \in 1..Len(data) |-> ExportLine(Reverse(data)[k], k - 1)])

\* The report: one line per entry, in array order.
ExportContent(data) == Concat([k \in 1..Len(data) |-> ExportLine(data[k], k - 1)])

\* The file a click on the download link offers.
Download(content) == [name |-> "punch.txt", type |-> "text/plain", content |-> content]

\* The export handler from the loaded array on, without the guard for the
\* empty log.
ExportLoadedUnguarded(loaded) ==
  /\ last' = [Quiet EXCEPT !.op = "export", !.threw = ~loaded.ok, !.created = 1, !.revoked = 1, !.downloads = <<Download(ExportContent(loaded.val))>>]
  /\ UNCHANGED <<variant, storage, input, rows, captured>>

\* The export handler from the loaded array on.
ExportLoaded(loaded) ==
  /\ last' = IF ~loaded.ok THEN [Quiet EXCEPT !.op = "export", !.threw = TRUE]
             ELSE IF Len(loaded.val) = 0 THEN [Quiet EXCEPT !.op = "export", !.alerts = 1]
             ELSE [Quiet EXCEPT !.op = "export", !.created = 1, !.revoked = 1, !.downloads = <<Download(ExportContent(loaded.val))>>]
  /\ UNCHANGED <<variant, storage, input, rows, captured>>

\* The click handler of exportBtn.
Export == ExportLoaded(getPunchData(storage))

\* A clear-all that does not look at the answer to the confirm dialog.
ClearAllUnconfirmed ==
  \E ok \in BOOLEAN :
    /\ variant = "rich"
    /\ AfterRender(savePunchData(<<>>), [Quiet EXCEPT !.op = "clear", !.arg = IF ok THEN 1 ELSE 0, !.confirms = 1], captured)
    /\ UNCHANGED <<variant, input>>

\* A clear-all that saves the empty array and does not render.
ClearAllUnrendered ==
  \E ok \in BOOLEAN :
    /\ variant = "rich"
    /\ last' = [Quiet EXCEPT !.op = "clear", !.arg = IF ok THEN 1 ELSE 0, !.confirms = 1]
    /\ storage' = IF ok THEN savePunchData(<<>>) ELSE storage
    /\ UNCHANGED <<variant, input, rows, captured>>

\* The click handler of clearAllBtn (richer script); ok is the user's answer
\* to the confirm dialog.
ClearAll ==
  \E ok \in BOOLEAN :
    /\ variant = "rich"
    /\ LET eff == [Quiet EXCEPT !.op = "clear", !.arg = IF ok THEN 1 ELSE 0, !.confirms = 1]
       IN IF ok
          THEN AfterRender(savePunchData(<<>>), eff, captured)
          ELSE /\ last' = eff
               /\ UNCHANGED <<storage, rows, captured>>
    /\ UNCHANGED <<variant, input>>

\* ----------------------------------------------------------- specification

\* A page of either script, loaded with nothing stored yet.
Init ==
  /\ variant \in Variants
  /\ storage = Absent
  /\ input = <<>>
  /\ rows = <<>>
  /\ captured = <<>>
  /\ last = [Quiet EXCEPT !.op = "load", !.renders = 1]

Next == PageLoad \/ TypeInput \/ Submit \/ Delete \/ Export \/ ClearAll

Spec == Init /\ [][Next]_vars

\* ------------------------------------------------------------- properties

\* The persisted log: what load() returns.
Log == getPunchData(storage).val

\* Whether every character of raw is white space.
IsBlank(raw) == \A i \in 1..Len(raw) : raw[i] \in WhiteSpace

\* The trimmed value of raw, characterised without the trimming procedure: the
\* one substring with only white space before and after it that neither
\* starts nor ends with white space.
TrimmedValue(raw) ==
  CHOOSE t \in { SubSeq(raw, i, j) : i \in 1..(Len(raw) + 1), j \in 0..Len(raw) } :
    /\ \E i \in 1..(Len(raw) + 1) :
         /\ raw = SubSeq(raw, 1, i - 1) \o t \o SubSeq(raw, i + Len(t), Len(raw))
         /\ IsBlank(SubSeq(raw, 1, i - 1))
         /\ IsBlank(SubSeq(raw, i + Len(t), Len(raw)))
    /\ t # <<>> => (t[1] \notin WhiteSpace /\ t[Len(t)] \notin WhiteSpace)

\* L without its element at position k.
RemoveAt(L, k) == [j \in 1..(Len(L) - 1) |-> IF j < k THEN L[j] ELSE L[j + 1]]

\* The markup of the displayed rows, top row first.
Shown == [j \in 1..Len(rows) |-> rows[j].html]

\* The markup of the rows for log L shown newest first.
NewestFirst(L) == [j \in 1..Len(L) |-> RowHtml(L[Len(L) + 1 - j])]

RECURSIVE SplitLines(_, _, _)
\* The newline-terminated lines of c (without the newlines), followed by the
\* unterminated rest if there is one.
SplitLines(c, cur, acc) ==
  IF c = <<>> THEN (IF cur = <<>> THEN acc ELSE Append(acc, cur))
  ELSE IF Head(c) = "\n" THEN SplitLines(Tail(c), <<>>, Append(acc, cur))
  ELSE SplitLines(Tail(c), Append(cur, Head(c)), acc)

RECURSIVE NumeralValue(_)
\* The number a decimal numeral denotes.
NumeralValue(ds) == IF ds = <<>> THEN 0 ELSE 10 * NumeralValue(SubSeq(ds, 1, Len(ds) - 1)) + (CHOOSE d \in 0..9 : DigitChars[d + 1] = ds[Len(ds)])

\* Whether line is the report line of entry e at 1-based position k: an
\* opening bracket, the numeral of k, a closing bracket, the date, a
\* full-width colon, the text.
IsReportLine(line, k, e) ==
  \E m \in 1..2 :
    /\ Len(line) >= m + 3
    /\ \A x \in 2..(m + 1) : \E d \in 1..10 : DigitChars[d] = line[x]
    /\ line[2] # "0"
    /\ NumeralValue(SubSeq(line, 2, m + 1)) = k
    /\ line = <<"U+3010">> \o SubSeq(line, 2, m + 1) \o <<"U+3011">> \o e.date \o <<"U+FF1A">> \o e.text

\* Whether the load result after is the log before followed by item.
AppendedOne(before, after, item) ==
  /\ after.ok
  /\ Len(after.val) = Len(before) + 1
  /\ after.val[Len(after.val)] = item
  /\ \A k \in 1..Len(before) : after.val[k] = before[k]

\* C1: a submit whose input has a non-empty trimmed value T, with generated
\* date string D, leaves the persisted log equal to the log before followed
\* by {text: T, date: D}: one entry more, the earlier ones where they were.
C1_SubmitAppendsOne ==
  [][(last'.op = "submit" /\ ~IsBlank(input)) =>
       /\ last'.date \in Dates
       /\ AppendedOne(Log, getPunchData(storage'), [text |-> TrimmedValue(input), date |-> last'.date])]_vars

\* A submit of a padded input has been accepted into a log that already held
\* an entry.
C1_Witness ==
  /\ last.op = "submit"
  /\ last.renders = 1
  /\ Len(Log) >= 2
  /\ Log[Len(Log)].text = <<"a">>
  /\ Log[1].text # <<"a">>

\* Whether, the log being L and the displayed rows shown, the load result
\* after and the rows shownAfter are those left by removing the entry shown
\* at display index i, that is the entry at original index Len(L)-1-i.
DeletedRow(L, i, shown, after, shownAfter) ==
  /\ Len(L) >= 1 /\ 0 <= i /\ i < Len(L)
  /\ Len(shown) = Len(L)
  /\ shown[i + 1].html = RowHtml(L[Len(L) - i])
  /\ after.ok
  /\ after.val = RemoveAt(L, Len(L) - i)
  /\ Len(after.val) = Len(L) - 1
  /\ [j \in 1..Len(shownAfter) |-> shownAfter[j].html] = NewestFirst(after.val)

\* C2: in the richer script, the delete control of the row at display index
\* i of a log of length n >= 1 removes exactly the entry at original index
\* n-1-i: the persisted log afterwards is the log before without that entry,
\* the others in their order, and the list is rendered again.
C2_PositionalDelete ==
  [][last'.op = "delete" =>
       /\ DeletedRow(Log, last'.arg, rows, getPunchData(storage'), rows')
       /\ last'.renders = 1]_vars

\* The row at display index 1 of three has been deleted and two different
\* entries remain.
C2_Witness ==
  /\ last.op = "delete"
  /\ last.arg = 1
  /\ Len(Log) = 2
  /\ Log[1] # Log[2]

\* C3: a submit of an input that is empty or only white space changes
\* nothing: the persisted value, the input field and the displayed list are
\* as before, nothing is rendered and no dialog or error is surfaced.
C3_BlankSubmitIsNoop ==
  [][(last'.op = "submit" /\ IsBlank(input)) =>
       /\ storage' = storage
       /\ input' = input
       /\ rows' = rows
       /\ captured' = captured
       /\ last'.renders = 0
       /\ last'.alerts = 0 /\ last'.confirms = 0
       /\ ~last'.threw
       /\ last'.downloads = <<>>]_vars

\* A white-space-only input has been submitted to a non-empty log and was
\* rejected.
C3_Witness ==
  /\ last.op = "submit"
  /\ last.renders = 0
  /\ input = <<" ", "\t">>
  /\ Len(Log) >= 1

\* C4: in the richer script, after a confirmed clear-all load() returns the
\* empty list and the displayed list is empty; after a declined one the
\* persisted value and the displayed list are what they were.
C4_ClearAll ==
  [][last'.op = "clear" =>
       /\ last'.confirms = 1
       /\ last'.arg = 1 =>
            /\ storage'.present
            /\ getPunchData(storage') = [ok |-> TRUE, val |-> <<>>]
            /\ rows' = <<>>
       /\ last'.arg = 0 =>
            /\ storage' = storage
            /\ rows' = rows
            /\ captured' = captured]_vars

\* A clear-all has been confirmed and has left a stored empty array.
C4_Witness ==
  /\ last.op = "clear"
  /\ last.arg = 1
  /\ last.renders = 1
  /\ storage.present
  /\ rows = <<>>

\* Whether content, split into lines, is the report of log L, whose entries
\* the rows shown display in the opposite order.
IsReport(L, content, lines, shown) ==
  /\ content[Len(content)] = "\n"
  /\ Len(lines) = Len(L)
  /\ \A k \in 1..Len(L) : IsReportLine(lines[k], k, L[k])
  /\ Len(shown) = Len(L)
  /\ \A k \in 1..Len(L) : shown[Len(L) + 1 - k].html = RowHtml(L[k])

\* Whether, the log L being non-empty, the export offered one file holding
\* the report of L.
ExportedReport(L, downloads, created, shown) ==
  Len(L) >= 1 =>
    /\ Len(downloads) = 1
    /\ created = 1
    /\ downloads[1].name = "punch.txt"
    /\ IsReport(L, downloads[1].content, SplitLines(downloads[1].content, <<>>, <<>>), shown)

\* C5: the export of a non-empty log offers one file whose content is, in
\* insertion order, one newline-terminated line per entry made of the
\* bracketed 1-based position, the date, a full-width colon and the text;
\* there are as many lines as entries, in the opposite of the displayed
\* order.
C5_ExportFormat ==
  last.op = "export" => ExportedReport(Log, last.downloads, last.created, rows)

\* A log of three entries, not all alike, has been exported.
C5_Witness ==
  /\ last.op = "export"
  /\ Len(Log) = 3
  /\ Log[1] # Log[3]

\* C6: an export while the persisted log is empty (the item absent, or a
\* stored empty array) shows the no-data alert once, creates no object URL
\* and offers no file, and changes neither the persisted value nor the
\* displayed list.
C6_EmptyExportGuard ==
  [][(last'.op = "export" /\ Log = <<>>) =>
       /\ last'.alerts = 1
       /\ last'.created = 0
       /\ last'.downloads = <<>>
       /\ storage' = storage
       /\ rows' = rows]_vars

\* An export has run on a stored empty array.
C6_Witness ==
  /\ last.op = "export"
  /\ storage.present
  /\ Log = <<>>
  /\ last.alerts = 1

\* Whether the rows shown are one per entry of L, row j (0-based) built from
\* entry e(n-j).
ShowsNewestFirst(L, shown) ==
  /\ Len(shown) = Len(L)
  /\ \A j \in 0..(Len(L) - 1) : shown[j + 1].html = RowHtml(L[Len(L) - j])

\* C7: after a handler that rendered, the displayed list has exactly one row
\* per entry of the persisted log, and row j (0-based) carries the text and
\* date of entry e(n-j): newest first, nothing left of an earlier render.
C7_ReverseRenderOrder ==
  last.renders >= 1 => ShowsNewestFirst(Log, rows)

\* A log of three entries, the oldest unlike the newest, has been rendered
\* by the simpler script.
C7_Witness ==
  /\ last.renders = 1
  /\ variant = "simple"
  /\ Len(Log) = 3
  /\ Log[1] # Log[3]
  /\ Len(rows) = 3

\* Whether e is an entry: a text that is non-empty and has no white space at
\* either end, and a date string.
IsEntry(e) ==
  /\ e.text # <<>>
  /\ e.text[1] \notin WhiteSpace
  /\ e.text[Len(e.text)] \notin WhiteSpace
  /\ e.date \in Dates

\* Whether a parse succeeded and gave an array of entries.
IsEntryArray(parsed) == parsed.ok /\ \A k \in 1..Len(parsed.val) : IsEntry(parsed.val[k])

\* C8: the persisted value is always absent or the serialisation of an array
\* of entries {text, date} whose text is non-empty and has no white space at
\* either end; load() fails in no reachable state.
C8_PersistedValueValid ==
  /\ getPunchData(storage).ok
  /\ ~last.threw
  /\ storage.present => IsEntryArray(JSONparse(storage.value))

\* An entry whose text holds a quote, a tab and a backslash is stored.
C8_Witness ==
  /\ storage.present
  /\ \E k \in 1..Len(Log) : Log[k].text = <<"\"", "\t", "\\">>

\* C9: a page-load render and an export leave the persisted value as it was,
\* in both scripts.
C9_RenderLeavesStorage ==
  [][last'.op \in { "load", "export" } => storage' = storage]_vars

\* The simpler script has rendered, on page load, a log whose first two
\* entries differ.
C9_Witness ==
  /\ last.op = "load"
  /\ variant = "simple"
  /\ Len(Log) >= 2
  /\ Log[1] # Log[2]

\* Whether the rows and their delete controls are those of log L.
ViewOf(L) ==
  /\ Shown = NewestFirst(L)
  /\ captured = L
  /\ \A j \in 1..Len(rows) : rows[j].del = j - 1

\* C10: in the richer script the displayed rows are always the reverse of
\* the persisted log, the array the delete controls close over equals the
\* persisted log, and each row's control holds that row's display index.
C10_ViewMatchesStore ==
  variant = "rich" => ViewOf(Log)

\* A delete in the richer script has left two entries displayed.
C10_Witness ==
  /\ variant = "rich"
  /\ last.op = "delete"
  /\ Len(rows) = 2
  /\ captured # <<>>

====
